---- MODULE Spec2Model ----
(***************************************************************************)
(* Offline plot utilities of the OED demo: the star-metadata extractor     *)
(* (demos/oed/scripts/extract_oed_star_metadata.py), the SVG to PNG        *)
(* conversion (convert_plots_svg_to_png.py), the bottom crop               *)
(* (crop_bottom_whitespace_pngs.py), and the layout, scales, curves and    *)
(* bins of the partition-kernel figure (notes/assets/                      *)
(* generate_partition_kernel_pullback_svg.py).                             *)
(*                                                                         *)
(* Numbers.  Python floats are modelled as exact rationals [n, d] in       *)
(* lowest terms with d > 0: the arithmetic of the source is translated     *)
(* operator by operator, without the rounding of IEEE doubles.  Equalities *)
(* between computed numbers are therefore equalities of exact arithmetic.  *)
(*                                                                         *)
(* Text.  A Python str is a sequence of one-character strings.  The SVG    *)
(* markup is a sequence of elements (records) as the plotting pipeline     *)
(* writes them; each regular expression of the source is a predicate on    *)
(* an element and .finditer / .search scan the sequence left to right.     *)
(***************************************************************************)
EXTENDS Integers, Sequences, FiniteSets, TLC

VARIABLES
    \* extract_oed_star_metadata.main
    plots_dir_exists,   \* plots_dir.exists()
    dir_files,          \* the files of <root>/plots/<series>
    svgs,               \* the sorted glob result
    pc,                 \* position of main
    idx,                \* number of loop iterations completed
    mapping,            \* the dict being built
    out_dir_made,       \* out_path.parent.mkdir was called
    out_file,           \* what out_path.write_text wrote (<<>> before)
    exit_status,        \* process exit status (-1 while running)
    stderr,             \* what the interpreter printed when main was left by an exception
    \* _fit_affine called alone
    p1, p2, fit_ret,
    \* _extract_ticks / _extract_star_xy / one loop body called alone
    svg_text, call, ret,
    \* generate_partition_kernel_pullback_svg.main, bins and probabilities
    inner_edges, cdf, bins, probs, bpc,
    \* generate_partition_kernel_pullback_svg.main, layout and curves
    width, height,      \* the figure size of line 82
    pdf_peak,           \* stdnorm_pdf(0) of the function taken for stdnorm_pdf
    fpc,                \* position of main
    fig_err,            \* the exception that left main ("" if none)
    gauss_points,       \* line 119
    highlight_points,   \* line 124
    svg,                \* the paths appended to the svg list (<<>> before line 140)
    fig_written,        \* out_path.write_text was called
    \* convert_plots_svg_to_png.main
    plots_exists,       \* plots.exists()
    conv_svgs,          \* sorted(plots.rglob("*.svg")), each with its PNG's state and
                        \* the exit status rsvg-convert has on it
    conv_i,             \* number of SVGs the loop has taken up
    converted, skipped, \* the counters of lines 40-41
    pngs,               \* positions of the SVGs whose PNG is up to date or was written
    conv_pc,            \* position of main
    conv_exit,          \* process exit status (-1 while running)
    conv_stdout,        \* what main printed
    \* the vertical scales and one bar of the partition figure, applied alone
    scale_y1, scale_y2, scale_pc, scale_out,
    \* crop_bottom_whitespace_pngs.crop_one called on a file, twice
    crop_img,           \* the image of the file before the first call
    crop_file,          \* the image of the file
    margin, dry_run,    \* the arguments of crop_one
    crop_pc,            \* number of calls made
    crop_ret,           \* Result.new_size of the last call (None before)
    crop_saves          \* number of calls of cropped.save

vars == <<plots_dir_exists, dir_files, svgs, pc, idx, mapping, out_dir_made,
          out_file, exit_status, stderr, p1, p2, fit_ret, svg_text, call, ret,
          inner_edges, cdf, bins, probs, bpc,
          width, height, pdf_peak, fpc, fig_err, gauss_points, highlight_points,
          svg, fig_written, plots_exists, conv_svgs, conv_i, converted, skipped,
          pngs, conv_pc, conv_exit, conv_stdout, scale_y1, scale_y2, scale_pc,
          scale_out, crop_img, crop_file, margin, dry_run, crop_pc, crop_ret,
          crop_saves>>

mainVars == <<plots_dir_exists, dir_files, svgs, pc, idx, mapping, out_dir_made,
              out_file, exit_status, stderr>>
fitVars == <<p1, p2, fit_ret>>
extractVars == <<svg_text, call, ret>>
binVars == <<inner_edges, cdf, bins, probs, bpc>>
figVars == <<width, height, pdf_peak, fpc, fig_err, gauss_points, highlight_points,
             svg, fig_written>>
convVars == <<plots_exists, conv_svgs, conv_i, converted, skipped, pngs, conv_pc,
              conv_exit, conv_stdout>>
scaleVars == <<scale_y1, scale_y2, scale_pc, scale_out>>
cropVars == <<crop_img, crop_file, margin, dry_run, crop_pc, crop_ret, crop_saves>>

-----------------------------------------------------------------------------
(* Bounds of the model *)

\* pixel coordinates of _fit_affine's inputs are the halves in 0 .. MaxPx
MaxPx == 3
\* values of _fit_affine's inputs are the halves in -MaxVal .. MaxVal
MaxVal == 2
\* the series directory holds at most MaxFiles files
MaxFiles == 3
\* a markup given to the extraction functions holds at most MaxElems elements
MaxElems == 4
\* a points attribute holds at most MaxTokens tokens
MaxTokens == 3
\* the partition has at most MaxEdges inner boundaries
MaxEdges == 3
\* the values of the CDF are the multiples of 1/CdfSteps in [0, 1]
CdfSteps == 4
\* plots/ holds at most MaxSvgs SVGs
MaxSvgs == 3
\* the data values given to the scales are the multiples of 3/50 from -3/50
\* to 3 * MaxData / 50
MaxData == 20
\* the images given to crop_one have at most MaxHeight rows
MaxHeight == 60

-----------------------------------------------------------------------------
(* float arithmetic *)

Abs(x) == IF x < 0 THEN -x ELSE x

RECURSIVE GCD(_, _)
GCD(a, b) == IF b = 0 THEN a ELSE GCD(b, a % b)

Reduced(n, d, g) == [n |-> n \div g, d |-> d \div g]

\* the float n/d (d # 0), in lowest terms with a positive denominator
Rat(n, d) ==
    IF d < 0 THEN Reduced(-n, -d, GCD(Abs(n), Abs(d)))
    ELSE Reduced(n, d, GCD(Abs(n), Abs(d)))

Zero == Rat(0, 1)
One == Rat(1, 1)

RAdd(x, y) == Rat(x.n * y.d + y.n * x.d, x.d * y.d)
RSub(x, y) == Rat(x.n * y.d - y.n * x.d, x.d * y.d)
RMul(x, y) == Rat(x.n * y.n, x.d * y.d)
\* x / y for y # 0
RDiv(x, y) == Rat(x.n * y.d, x.d * y.n)
RLess(x, y) == x.n * y.d < y.n * x.d
RLeq(x, y) == x.n * y.d <= y.n * x.d

-----------------------------------------------------------------------------
(* results of a call: a returned value or a raised exception *)

Return(v) == [raised |-> "", val |-> <<v>>]
Raise(e) == [raised |-> e, val |-> <<>>]
Returned(r) == r.raised = ""
NotCalled == [raised |-> "not called", val |-> <<>>]

-----------------------------------------------------------------------------
(* Affine1D and _fit_affine *)

\* Affine1D.__call__: a * px + b
Affine1D_call(m, px) == RAdd(RMul(m.a, px), m.b)

\* Affine1D(a=a, b=b)
Affine1D(a, b) == [a |-> a, b |-> b]

\* lines 76-77, given the slope a: b = v1 - a * px1
fit_intercept(a, px1, v1) == Return(Affine1D(a, RSub(v1, RMul(a, px1))))

\* lines 73-77 with the points unpacked; x / 0.0 raises ZeroDivisionError
fit_unpacked(px1, v1, px2, v2) ==
    IF px2 = px1 THEN Raise("ValueError: Degenerate affine fit")
    ELSE IF RSub(px2, px1) = Zero THEN Raise("ZeroDivisionError")
    ELSE fit_intercept(RDiv(RSub(v2, v1), RSub(px2, px1)), px1, v1)

\* a fit whose guard compares the values instead of the pixels
fit_affine_guard_on_values(q1, q2) ==
    IF q2[2] = q1[2] THEN Raise("ValueError: Degenerate affine fit")
    ELSE IF RSub(q2[1], q1[1]) = Zero THEN Raise("ZeroDivisionError")
    ELSE fit_intercept(RDiv(RSub(q2[2], q1[2]), RSub(q2[1], q1[1])), q1[1], q1[2])

\* a fit whose intercept is anchored at the second pixel
fit_affine_wrong_intercept(q1, q2) ==
    IF q2[1] = q1[1] THEN Raise("ValueError: Degenerate affine fit")
    ELSE fit_intercept(RDiv(RSub(q2[2], q1[2]), RSub(q2[1], q1[1])), q2[1], q1[2])

\* _fit_affine(p1, p2)
_fit_affine(q1, q2) == fit_unpacked(q1[1], q1[2], q2[1], q2[2])

-----------------------------------------------------------------------------
(* str and float(str) *)

Digits == {"0", "1", "2", "3", "4", "5", "6", "7", "8", "9"}

DigitVal(c) ==
    CASE c = "0" -> 0 [] c = "1" -> 1 [] c = "2" -> 2 [] c = "3" -> 3
      [] c = "4" -> 4 [] c = "5" -> 5 [] c = "6" -> 6 [] c = "7" -> 7
      [] c = "8" -> 8 [] c = "9" -> 9

RECURSIVE DigitsValue(_)
DigitsValue(s) ==
    IF s = <<>> THEN 0
    ELSE 10 * DigitsValue(SubSeq(s, 1, Len(s) - 1)) + DigitVal(s[Len(s)])

RECURSIVE Pow10(_)
Pow10(k) == IF k = 0 THEN 1 ELSE 10 * Pow10(k - 1)

\* float(s) for s over digits, ".", "+", "-" and characters that are none of
\* these (the strings of the model hold no exponent, "inf", "nan" or "_")
\* the decimal with integer digits ip and fraction digits fp
Decimal(ip, fp) ==
    Rat(DigitsValue(ip) * Pow10(Len(fp)) + DigitsValue(fp), Pow10(Len(fp)))

\* the index of the first "." of body, Len(body) + 1 when it has none
DotIndex(body) ==
    IF \A i \in 1..Len(body) : body[i] # "." THEN Len(body) + 1
    ELSE CHOOSE i \in 1..Len(body) :
             body[i] = "." /\ \A j \in 1..(i - 1) : body[j] # "."

UnsignedAt(body, dot) ==
    Decimal(SubSeq(body, 1, dot - 1), SubSeq(body, dot + 1, Len(body)))

\* digits with at most one ".", and at least one digit
IsDecimal(body) ==
    /\ \A i \in 1..Len(body) : body[i] \in Digits \/ body[i] = "."
    /\ Cardinality({i \in 1..Len(body) : body[i] = "."}) <= 1
    /\ \E i \in 1..Len(body) : body[i] \in Digits

float_signed(neg, body) ==
    IF ~IsDecimal(body) THEN Raise("ValueError: could not convert string to float")
    ELSE IF neg THEN Return(RSub(Zero, UnsignedAt(body, DotIndex(body))))
    ELSE Return(UnsignedAt(body, DotIndex(body)))

float(s) ==
    IF Len(s) >= 1 /\ s[1] \in {"-", "+"} THEN float_signed(s[1] = "-", Tail(s))
    ELSE float_signed(FALSE, s)

\* the regular expression [0-9.]+
MatchesNum(s) == Len(s) >= 1 /\ \A i \in 1..Len(s) : s[i] \in Digits \/ s[i] = "."

\* the regular expression -?[0-9.]+
MatchesSignedNum(s) ==
    IF Len(s) >= 1 /\ s[1] = "-" THEN MatchesNum(Tail(s)) ELSE MatchesNum(s)

\* the regular expression \s
IsSpace(c) == c \in {" ", "\n", "\t"}

\* str.strip()
RECURSIVE strip(_)
strip(s) ==
    IF s = <<>> THEN s
    ELSE IF IsSpace(s[1]) THEN strip(Tail(s))
    ELSE IF IsSpace(s[Len(s)]) THEN strip(SubSeq(s, 1, Len(s) - 1))
    ELSE s

\* re.split(r"\s+", s)
\* the least index >= i of s whose character is (sp) or is not (~sp) white
\* space, Len(s) + 1 when there is none
RECURSIVE Scan(_, _, _)
Scan(s, i, sp) ==
    IF i > Len(s) THEN i
    ELSE IF IsSpace(s[i]) = sp THEN i
    ELSE Scan(s, i + 1, sp)

RECURSIVE re_split_ws(_)
SplitAt(s, i) ==
    IF i > Len(s) THEN <<s>>
    ELSE <<SubSeq(s, 1, i - 1)>> \o re_split_ws(SubSeq(s, Scan(s, i, FALSE), Len(s)))

re_split_ws(s) == SplitAt(s, Scan(s, 1, TRUE))

-----------------------------------------------------------------------------
(* _parse_points and _centroid_xy *)

\* the index of the first "," of a token that has one
CommaIndex(token) ==
    CHOOSE k \in 1..Len(token) : token[k] = "," /\ \A l \in 1..(k - 1) : token[l] # ","

\* lines 56-59: pts.append((float(xs), float(ys))), except ValueError: continue
try_append(xs, ys) ==
    IF Returned(xs) /\ Returned(ys) THEN Return(<< <<xs.val[1], ys.val[1]>> >>)
    ELSE Return(<<>>)

\* line 55: xs, ys = token.split(",", 1)
split_comma(token, c) ==
    try_append(float(SubSeq(token, 1, c - 1)), float(SubSeq(token, c + 1, Len(token))))

\* lines 51-59, one iteration of the loop of _parse_points: the points that the
\* token appends
parse_token(token) ==
    IF token = <<>> THEN Return(<<>>)
    ELSE IF \A i \in 1..Len(token) : token[i] # "," THEN Return(<<>>)
    ELSE split_comma(token, CommaIndex(token))

\* h followed by t, or the first exception
Concat(h, t) ==
    IF ~Returned(h) THEN h
    ELSE IF ~Returned(t) THEN t
    ELSE Return(h.val[1] \o t.val[1])

RECURSIVE parse_tokens(_)
parse_tokens(tokens) ==
    IF tokens = <<>> THEN Return(<<>>)
    ELSE Concat(parse_token(Head(tokens)), parse_tokens(Tail(tokens)))

\* _parse_points(points)
_parse_points(points) == parse_tokens(re_split_ws(strip(points)))

RECURSIVE SumCoord(_, _)
SumCoord(pts, c) ==
    IF pts = <<>> THEN Zero ELSE RAdd(Head(pts)[c], SumCoord(Tail(pts), c))

\* a centroid that is the centre of the bounding box
RMin(x, y) == IF RLess(x, y) THEN x ELSE y
RMax(x, y) == IF RLess(x, y) THEN y ELSE x

RECURSIVE MinCoord(_, _)
MinCoord(pts, c) ==
    IF Len(pts) = 1 THEN pts[1][c] ELSE RMin(pts[1][c], MinCoord(Tail(pts), c))

RECURSIVE MaxCoord(_, _)
MaxCoord(pts, c) ==
    IF Len(pts) = 1 THEN pts[1][c] ELSE RMax(pts[1][c], MaxCoord(Tail(pts), c))

centroid_bbox(pts) ==
    IF pts = <<>> THEN Raise("ValueError: No points")
    ELSE Return(<<RDiv(RAdd(MinCoord(pts, 1), MaxCoord(pts, 1)), Rat(2, 1)),
                  RDiv(RAdd(MinCoord(pts, 2), MaxCoord(pts, 2)), Rat(2, 1))>>)

\* _centroid_xy(pts)
_centroid_xy(pts) ==
    IF pts = <<>> THEN Raise("ValueError: No points")
    ELSE Return(<<RDiv(SumCoord(pts, 1), Rat(Len(pts), 1)),
                  RDiv(SumCoord(pts, 2), Rat(Len(pts), 1))>>)

-----------------------------------------------------------------------------
(* The markup.  Elements as the plotting pipeline writes them:             *)
(*   <polygon points='..' .. fill='..' .. />   [tag, points, fill]         *)
(*   <text x='..' y='..' ..>body</text>        [tag, x, y, body]           *)
(*   <line x1='..' y1='..' x2='..' y2='..' ..  [tag, x1, y1, x2, y2]       *)

Polygon(points, fill) == [tag |-> "polygon", points |-> points, fill |-> fill]
Text(x, y, body) == [tag |-> "text", x |-> x, y |-> y, body |-> body]
Line(x1, y1, x2, y2) == [tag |-> "line", x1 |-> x1, y1 |-> y1, x2 |-> x2, y2 |-> y2]

\* str.lower() on the fill values of the model (re.IGNORECASE)
lower(fill) == IF fill = "#FFD92F" THEN "#ffd92f" ELSE fill

\* STAR_POLY_RE matches the element; group 1 is e.points
STAR_POLY_RE(e) ==
    /\ e.tag = "polygon"
    /\ Len(e.points) >= 1
    /\ \A i \in 1..Len(e.points) : e.points[i] # "'"
    /\ lower(e.fill) = "#ffd92f"

\* X_TICK_LINE_RE matches the element; group 1 is e.x1
X_TICK_LINE_RE(e) ==
    /\ e.tag = "line"
    /\ MatchesNum(e.x1)
    /\ e.y1 = <<"4", "6", "0">>
    /\ e.x2 = e.x1
    /\ e.y2 = <<"4", "6", "5">>

\* X_TICK_TEXT_RE matches the element; groups 1, 2 are e.x, e.body
X_TICK_TEXT_RE(e) ==
    /\ e.tag = "text"
    /\ MatchesNum(e.x)
    /\ e.y = <<"4", "7", "8">>
    /\ MatchesSignedNum(e.body)

\* Y_TICK_LINE_RE matches the element; group 1 is e.y1
Y_TICK_LINE_RE(e) ==
    /\ e.tag = "line"
    /\ e.x1 = <<"6", "5">>
    /\ MatchesNum(e.y1)
    /\ e.x2 = <<"7", "0">>
    /\ e.y2 = e.y1

\* Y_TICK_TEXT_RE matches the element; groups 1, 2 are e.y, e.body
Y_TICK_TEXT_RE(e) ==
    /\ e.tag = "text"
    /\ e.x = <<"6", "2">>
    /\ MatchesNum(e.y)
    /\ MatchesSignedNum(e.body)

-----------------------------------------------------------------------------
(* _extract_ticks *)

\* the tuple (float(m.group(1)), float(m.group(2))) of one match, followed by
\* the tuples of the later matches; the first exception escapes
tick_item(px, v, rest) ==
    IF ~Returned(px) THEN px
    ELSE IF ~Returned(v) THEN v
    ELSE IF ~Returned(rest) THEN rest
    ELSE Return(<< <<px.val[1], v.val[1]>> >> \o rest.val[1])

\* line 82: [(float(m.group(1)), float(m.group(2))) for m in X_TICK_TEXT_RE.finditer(svg_text)]
RECURSIVE x_ticks_of(_)
x_ticks_of(text) ==
    IF text = <<>> THEN Return(<<>>)
    ELSE IF ~X_TICK_TEXT_RE(Head(text)) THEN x_ticks_of(Tail(text))
    ELSE tick_item(float(Head(text).x), float(Head(text).body), x_ticks_of(Tail(text)))

\* line 83: [(float(m.group(1)), float(m.group(2))) for m in Y_TICK_TEXT_RE.finditer(svg_text)]
RECURSIVE y_ticks_of(_)
y_ticks_of(text) ==
    IF text = <<>> THEN Return(<<>>)
    ELSE IF ~Y_TICK_TEXT_RE(Head(text)) THEN y_ticks_of(Tail(text))
    ELSE tick_item(float(Head(text).y), float(Head(text).body), y_ticks_of(Tail(text)))

\* insertion of t into a list sorted by t[0], after the elements with an equal key
RECURSIVE Insert(_, _)
Insert(t, sortedTicks) ==
    IF sortedTicks = <<>> THEN <<t>>
    ELSE IF RLess(t[1], Head(sortedTicks)[1]) THEN <<t>> \o sortedTicks
    ELSE <<Head(sortedTicks)>> \o Insert(t, Tail(sortedTicks))

\* sorted(ticks, key=lambda t: t[0]), a stable sort
RECURSIVE sorted_by_px(_)
sorted_by_px(ticks) ==
    IF ticks = <<>> THEN <<>>
    ELSE Insert(ticks[Len(ticks)], sorted_by_px(SubSeq(ticks, 1, Len(ticks) - 1)))

\* a fit from the first two ticks of the sorted list
fit_first_two(ticks_sorted) == _fit_affine(ticks_sorted[1], ticks_sorted[2])

\* lines 93, 94: the fit from the first and the last tick of the sorted list
fit_extremes(ticks_sorted) ==
    _fit_affine(ticks_sorted[1], ticks_sorted[Len(ticks_sorted)])

\* line 96: return x_map, y_map, unless a fit raised
pair_maps(x_map, y_map) ==
    IF ~Returned(x_map) THEN x_map
    ELSE IF ~Returned(y_map) THEN y_map
    ELSE Return(<<x_map.val[1], y_map.val[1]>>)

\* a check that asks for two ticks on one of the axes only
fit_ticks_either_axis(x_ticks, y_ticks) ==
    IF Len(x_ticks) < 2 /\ Len(y_ticks) < 2
    THEN Raise("ValueError: Could not find enough axis ticks")
    ELSE IF Len(x_ticks) < 2 \/ Len(y_ticks) < 2
    THEN Return(<<Affine1D(One, Zero), Affine1D(One, Zero)>>)
    ELSE pair_maps(fit_extremes(sorted_by_px(x_ticks)), fit_extremes(sorted_by_px(y_ticks)))

\* lines 85-96
fit_ticks(x_ticks, y_ticks) ==
    IF Len(x_ticks) < 2 \/ Len(y_ticks) < 2
    THEN Raise("ValueError: Could not find enough axis ticks")
    ELSE pair_maps(fit_extremes(sorted_by_px(x_ticks)), fit_extremes(sorted_by_px(y_ticks)))

\* lines 82-96, given the two comprehensions
ticks_then_fit(xt, yt) ==
    IF ~Returned(xt) THEN xt
    ELSE IF ~Returned(yt) THEN yt
    ELSE fit_ticks(xt.val[1], yt.val[1])

\* _extract_ticks(svg_text): the pair <<x_map, y_map>>
_extract_ticks(text) == ticks_then_fit(x_ticks_of(text), y_ticks_of(text))

-----------------------------------------------------------------------------
(* _extract_star_xy *)

\* STAR_POLY_RE.search(svg_text): <<m>> for the leftmost match, <<>> for None
RECURSIVE star_search(_)
star_search(text) ==
    IF text = <<>> THEN <<>>
    ELSE IF STAR_POLY_RE(Head(text)) THEN <<Head(text)>>
    ELSE star_search(Tail(text))

\* line 104: _centroid_xy(pts)
centroid_of(pts) == IF ~Returned(pts) THEN pts ELSE _centroid_xy(pts.val[1])

\* lines 101-104
star_of_match(m) ==
    IF m = <<>> THEN Raise("ValueError: Star polygon not found")
    ELSE centroid_of(_parse_points(m[1].points))

\* _extract_star_xy(svg_text)
_extract_star_xy(text) == star_of_match(star_search(text))

-----------------------------------------------------------------------------
(* the body of main's loop for one artifact, lines 146-153 *)

\* a record whose x1 is read off the Y axis and x2 off the X axis
record_of_swapped_axes(maps, star) ==
    IF ~Returned(maps) THEN maps
    ELSE IF ~Returned(star) THEN star
    ELSE Return([x1 |-> Affine1D_call(maps.val[1][2], star.val[1][2]),
                 x2 |-> Affine1D_call(maps.val[1][1], star.val[1][1])])

\* lines 150-153: the record, unless an extraction raised
record_of(maps, star) ==
    IF ~Returned(maps) THEN maps
    ELSE IF ~Returned(star) THEN star
    ELSE Return([x1 |-> Affine1D_call(maps.val[1][1], star.val[1][1]),
                 x2 |-> Affine1D_call(maps.val[1][2], star.val[1][2])])

loop_body(text) == record_of(_extract_ticks(text), _extract_star_xy(text))

-----------------------------------------------------------------------------
(* main of extract_oed_star_metadata.py *)

\* args.series (the default)
series == "expected_info_gain"

\* ord(c) for the characters of the file names after "_step_"
Ord(c) == IF c = "." THEN 46 ELSE IF c \in Digits THEN 48 + DigitVal(c) ELSE 115

\* s < t for str (lexicographic)
RECURSIVE StrLess(_, _)
StrLess(s, t) ==
    IF t = <<>> THEN FALSE
    ELSE IF s = <<>> THEN TRUE
    ELSE IF Ord(Head(s)) # Ord(Head(t)) THEN Ord(Head(s)) < Ord(Head(t))
    ELSE StrLess(Tail(s), Tail(t))

\* A file <prefix>_step_<suffix>.svg of the series directory.  The prefixes of
\* the model differ in their first letter, so names order by prefix first.
PrefixRank(prefix) ==
    CASE prefix = "decision_map" -> 1
      [] prefix = "expected_info_gain" -> 2
      [] prefix = "uncertainty_map" -> 3

NameLess(a, b) ==
    IF a.prefix # b.prefix THEN PrefixRank(a.prefix) < PrefixRank(b.prefix)
    ELSE StrLess(a.suffix \o <<".">>, b.suffix \o <<".">>)

\* the file of fs with the least name
first_file(fs) == CHOOSE g \in fs : \A h \in fs : h = g \/ NameLess(g.name, h.name)

\* sorted(files) by name
RECURSIVE sorted_files(_)
then_rest(f, fs) == <<f>> \o sorted_files(fs \ {f})

sorted_files(fs) == IF fs = {} THEN <<>> ELSE then_rest(first_file(fs), fs)

\* the series' own files when there are some, else all of them
own_or_all(own, fs) == IF own # {} THEN sorted_files(own) ELSE sorted_files(fs)

\* lines 128-131: sorted glob of <series>_step_*.svg, else of *_step_*.svg
glob_svgs(fs) == own_or_all({f \in fs : f.name.prefix = series}, fs)

\* re.search(r"_step_(\d{3})\.svg$", svg.name) matches
step_re(name) == Len(name.suffix) = 3 /\ \A i \in 1..3 : name.suffix[i] \in Digits

\* str(n) for an int n >= 0
RECURSIVE str(_)
str(n) ==
    IF n < 10 THEN <<CHOOSE c \in Digits : DigitVal(c) = n>>
    ELSE str(n \div 10) \o <<CHOOSE c \in Digits : DigitVal(c) = n % 10>>

\* str(int(m.group(1)))
key_of(name) == str(DigitsValue(name.suffix))

\* mapping[key] = rec
dict_set(d, key, rec) ==
    [k \in (DOMAIN d) \cup {key} |-> IF k = key THEN rec ELSE d[k]]

\* the least key of a dict
first_key(d) == CHOOSE a \in DOMAIN d : \A b \in DOMAIN d : b = a \/ StrLess(a, b)

\* json.dumps(mapping, sort_keys=True): the items in key order
RECURSIVE json_dumps(_)
item_then_rest(k, d) == << <<k, d[k]>> >> \o json_dumps([b \in (DOMAIN d) \ {k} |-> d[b]])

json_dumps(d) == IF DOMAIN d = {} THEN <<>> ELSE item_then_rest(first_key(d), d)

EmptyDict == [k \in {} |-> Zero]

\* a run that creates the output directory before it looks for the corpus
MissingDirAfterMkdir ==
    /\ pc = "start"
    /\ ~plots_dir_exists
    /\ out_dir_made' = TRUE
    /\ pc' = "exit"
    /\ exit_status' = 1
    /\ stderr' = "Missing plot series dir"
    /\ UNCHANGED <<plots_dir_exists, dir_files, svgs, idx, mapping, out_file>>

\* lines 123-126: raise SystemExit("Missing plot series dir: ...")
MissingDir ==
    /\ pc = "start"
    /\ ~plots_dir_exists
    /\ pc' = "exit"
    /\ exit_status' = 1
    /\ stderr' = "Missing plot series dir"
    /\ UNCHANGED <<plots_dir_exists, dir_files, svgs, idx, mapping, out_dir_made, out_file>>

\* lines 128-138: glob, mkdir of the output directory, mapping = {}
Setup ==
    /\ pc = "start"
    /\ plots_dir_exists
    /\ svgs' = glob_svgs(dir_files)
    /\ out_dir_made' = TRUE
    /\ mapping' = EmptyDict
    /\ pc' = "loop"
    /\ UNCHANGED <<plots_dir_exists, dir_files, idx, out_file, exit_status, stderr>>

\* lines 141-143: the name does not match, continue
LoopSkipName ==
    /\ pc = "loop"
    /\ idx < Len(svgs)
    /\ ~step_re(svgs[idx + 1].name)
    /\ idx' = idx + 1
    /\ UNCHANGED <<plots_dir_exists, dir_files, svgs, pc, mapping, out_dir_made,
                   out_file, exit_status, stderr>>

\* lines 144-153: the artifact's record is stored
LoopRecord ==
    /\ pc = "loop"
    /\ idx < Len(svgs)
    /\ step_re(svgs[idx + 1].name)
    /\ Returned(loop_body(svgs[idx + 1].text))
    /\ mapping' = dict_set(mapping, key_of(svgs[idx + 1].name),
                           loop_body(svgs[idx + 1].text).val[1])
    /\ idx' = idx + 1
    /\ UNCHANGED <<plots_dir_exists, dir_files, svgs, pc, out_dir_made, out_file,
                   exit_status, stderr>>

\* lines 147-148: the ValueError of an extraction is not caught: main ends
\* with a traceback and exit status 1
LoopRaise ==
    /\ pc = "loop"
    /\ idx < Len(svgs)
    /\ step_re(svgs[idx + 1].name)
    /\ ~Returned(loop_body(svgs[idx + 1].text))
    /\ pc' = "crash"
    /\ exit_status' = 1
    /\ stderr' = loop_body(svgs[idx + 1].text).raised
    /\ UNCHANGED <<plots_dir_exists, dir_files, svgs, idx, mapping, out_dir_made,
                   out_file>>

\* lines 155-157: write the JSON, return 0
WriteOut ==
    /\ pc = "loop"
    /\ idx = Len(svgs)
    /\ out_file' = <<json_dumps(mapping)>>
    /\ exit_status' = 0
    /\ pc' = "done"
    /\ UNCHANGED <<plots_dir_exists, dir_files, svgs, idx, mapping, out_dir_made, stderr>>

-----------------------------------------------------------------------------
(* main of generate_partition_kernel_pullback_svg.py: the discrete bins *)

\* None, and a float that is not None
None == <<>>
Some(v) == <<v>>

\* line 264: (inner_edges[i], inner_edges[i + 1]) for i in range(len(inner_edges) - 1)
inner_bins(edges) ==
    [i \in 1..(Len(edges) - 1) |-> <<Some(edges[i]), Some(edges[i + 1])>>]

\* a bin list without the upper tail bin
bins_without_upper_tail(edges) == << <<None, Some(edges[1])>> >> \o inner_bins(edges)

\* lines 263-265: the lower tail bin, the inner bins, the upper tail bin
build_bins(edges) ==
    << <<None, Some(edges[1])>> >> \o inner_bins(edges)
        \o << <<Some(edges[Len(edges)]), None>> >>

\* the tail bins given each other's probability
prob_of_swapped_tails(left, right, F) ==
    IF left = None /\ right # None THEN Return(RSub(One, F[right[1]]))
    ELSE IF left # None /\ right = None THEN Return(F[left[1]])
    ELSE IF left # None /\ right # None THEN Return(RSub(F[right[1]], F[left[1]]))
    ELSE Raise("ValueError: Invalid bin interval.")

\* lines 269-276, with F[x] for stdnorm_cdf(x)
prob_of(left, right, F) ==
    IF left = None /\ right # None THEN Return(F[right[1]])
    ELSE IF left # None /\ right = None THEN Return(RSub(One, F[left[1]]))
    ELSE IF left # None /\ right # None THEN Return(RSub(F[right[1]], F[left[1]]))
    ELSE Raise("ValueError: Invalid bin interval.")

\* lines 262-265
BuildBins ==
    /\ bpc = "bins"
    /\ bins' = build_bins(inner_edges)
    /\ probs' = <<>>
    /\ bpc' = "probs"
    /\ UNCHANGED <<inner_edges, cdf>>

\* probs.append(p), or the ValueError leaves main
append_or_raise(p) ==
    IF Returned(p) THEN probs' = Append(probs, p.val[1]) /\ bpc' = bpc
    ELSE probs' = probs /\ bpc' = "crash"

\* lines 268-276: one iteration of the loop over bins
ProbStep ==
    /\ bpc = "probs"
    /\ Len(probs) < Len(bins)
    /\ append_or_raise(prob_of(bins[Len(probs) + 1][1], bins[Len(probs) + 1][2], cdf))
    /\ UNCHANGED <<inner_edges, cdf, bins>>

\* the loop over bins is exhausted
ProbsDone ==
    /\ bpc = "probs"
    /\ Len(probs) = Len(bins)
    /\ bpc' = "bars"
    /\ UNCHANGED <<inner_edges, cdf, bins, probs>>

-----------------------------------------------------------------------------
(* generate_partition_kernel_pullback_svg.main: layout, scales and curves *)

RAbs(x) == IF x.n < 0 THEN Rat(-x.n, x.d) ELSE x

\* stdnorm_pdf is exp(-x*x/2)/sqrt(2*pi), a function of x alone; the model takes
\* for it an even function of peak pk at 0, decreasing in |x| to 0 at |x| = 3
stdnorm_pdf(x, pk) == RMul(pk, RSub(One, RDiv(RAbs(x), Rat(3, 1))))

\* line 56
x_min == Rat(-3, 1)
x_max == Rat(3, 1)
\* lines 71-72
highlight_left == Rat(6, 5)
highlight_right == Rat(8, 5)

\* lines 82-86: plot_w = (width - margin_left - margin_right - gap) / 2.0
plot_w(w) == RDiv(RSub(RSub(RSub(w, Rat(64, 1)), Rat(40, 1)), Rat(78, 1)), Rat(2, 1))
\* line 87
top_plot_h == Rat(264, 1)
\* lines 82-89: bar_plot_h = height - margin_top - margin_bottom - top_plot_h - middle_gap
bar_plot_h(h) ==
    RSub(RSub(RSub(RSub(h, Rat(42, 1)), Rat(80, 1)), top_plot_h), Rat(120, 1))
\* line 90: if bar_plot_h < 160
layout_too_small(h) == RLess(bar_plot_h(h), Rat(160, 1))

\* lines 93-96
left_x0 == Rat(64, 1)
right_x0(w) == RAdd(RAdd(Rat(64, 1), plot_w(w)), Rat(78, 1))
y0 == Rat(42, 1)
y_bar0 == RAdd(RAdd(y0, top_plot_h), Rat(120, 1))

\* lines 99-100, 115
y_max_gauss == Rat(21, 50)
y_max_unif == Rat(6, 5)
y_max_bar == Rat(9, 50)

\* lines 102-103
gx(x, w) == RAdd(left_x0, RMul(RDiv(RSub(x, x_min), RSub(x_max, x_min)), plot_w(w)))
\* lines 105-106
gy(y) == RAdd(y0, RMul(RDiv(RSub(y_max_gauss, y), y_max_gauss), top_plot_h))
\* lines 108-109
ux(u, w) == RAdd(right_x0(w), RMul(u, plot_w(w)))
\* lines 111-112
uy(y) == RAdd(y0, RMul(RDiv(RSub(y_max_unif, y), y_max_unif), top_plot_h))
\* a bar scale that grows downward with the data
by_upward(y, h) == RAdd(y_bar0, RMul(RDiv(y, y_max_bar), bar_plot_h(h)))

\* lines 114-116
by(y, h) == RAdd(y_bar0, RMul(RDiv(RSub(y_max_bar, y), y_max_bar), bar_plot_h(h)))

\* line 121: x = x_min + (x_max - x_min) * i / 240.0
gauss_x(i) == RAdd(x_min, RDiv(RMul(RSub(x_max, x_min), Rat(i, 1)), Rat(240, 1)))
\* a highlight segment sampled with one step too many
highlight_x_short_step(i) ==
    RAdd(highlight_left,
         RDiv(RMul(RSub(highlight_right, highlight_left), Rat(i, 1)), Rat(81, 1)))
\* line 126: x = highlight_left + (highlight_right - highlight_left) * i / 80.0
highlight_x(i) ==
    RAdd(highlight_left,
         RDiv(RMul(RSub(highlight_right, highlight_left), Rat(i, 1)), Rat(80, 1)))
\* lines 122 and 127: (gx(x), gy(stdnorm_pdf(x)))
curve_point(x, w, pk) == <<gx(x, w), gy(stdnorm_pdf(x, pk))>>

\* lines 82-91: the layout; the ValueError leaves main
Layout ==
    /\ fpc = "layout"
    /\ fpc' = IF layout_too_small(height) THEN "crash" ELSE "gauss"
    /\ fig_err' = IF layout_too_small(height)
                  THEN "ValueError: Figure layout error: bar_plot_h too small."
                  ELSE ""
    /\ UNCHANGED <<width, height, pdf_peak, gauss_points, highlight_points, svg,
                   fig_written>>

\* lines 120-122: one iteration of for i in range(241)
GaussStep ==
    /\ fpc = "gauss"
    /\ Len(gauss_points) < 241
    /\ gauss_points' =
           Append(gauss_points, curve_point(gauss_x(Len(gauss_points)), width, pdf_peak))
    /\ UNCHANGED <<width, height, pdf_peak, fpc, fig_err, highlight_points, svg,
                   fig_written>>

\* line 124: the path starts on the baseline at highlight_left
HighlightOpen ==
    /\ fpc = "gauss"
    /\ Len(gauss_points) = 241
    /\ highlight_points' = << <<gx(highlight_left, width), gy(Zero)>> >>
    /\ fpc' = "highlight"
    /\ UNCHANGED <<width, height, pdf_peak, fig_err, gauss_points, svg, fig_written>>

\* lines 125-127: one iteration of for i in range(81)
HighlightStep ==
    /\ fpc = "highlight"
    /\ Len(highlight_points) < 82
    /\ highlight_points' =
           Append(highlight_points,
                  curve_point(highlight_x(Len(highlight_points) - 1), width, pdf_peak))
    /\ UNCHANGED <<width, height, pdf_peak, fpc, fig_err, gauss_points, svg,
                   fig_written>>

\* line 128: the path ends on the baseline at highlight_right
HighlightClose ==
    /\ fpc = "highlight"
    /\ Len(highlight_points) = 82
    /\ highlight_points' =
           Append(highlight_points, <<gx(highlight_right, width), gy(Zero)>>)
    /\ fpc' = "svg"
    /\ UNCHANGED <<width, height, pdf_peak, fig_err, gauss_points, svg, fig_written>>

\* lines 140-316: the svg list, with the closed fill path of line 221 and the
\* curve of line 240, is built and written
WriteFigure ==
    /\ fpc = "svg"
    /\ svg' = <<[class |-> "fill", d |-> highlight_points, closed |-> TRUE],
                [class |-> "curve", d |-> gauss_points, closed |-> FALSE]>>
    /\ fig_written' = TRUE
    /\ fpc' = "done"
    /\ UNCHANGED <<width, height, pdf_peak, fig_err, gauss_points, highlight_points>>

-----------------------------------------------------------------------------
(* convert_plots_svg_to_png.main *)

\* line 45: out_png.exists() and out_png.stat().st_mtime >= svg.stat().st_mtime
up_to_date(f) == f.png # "none" /\ f.png_mtime >= f.svg_mtime

\* lines 32-33: no plots/ directory, SystemExit with a message
ConvMissingDir ==
    /\ conv_pc = "start"
    /\ ~plots_exists
    /\ conv_pc' = "crash"
    /\ conv_exit' = 1
    /\ UNCHANGED <<plots_exists, conv_svgs, conv_i, converted, skipped, pngs, conv_stdout>>

\* lines 35-38: nothing to convert
ConvNoSvgs ==
    /\ conv_pc = "start"
    /\ plots_exists
    /\ conv_svgs = <<>>
    /\ conv_stdout' = "No SVGs found under plots/."
    /\ conv_pc' = "done"
    /\ conv_exit' = 0
    /\ UNCHANGED <<plots_exists, conv_svgs, conv_i, converted, skipped, pngs>>

\* lines 40-41
ConvStart ==
    /\ conv_pc = "start"
    /\ plots_exists
    /\ conv_svgs # <<>>
    /\ converted' = 0
    /\ skipped' = 0
    /\ conv_pc' = "loop"
    /\ UNCHANGED <<plots_exists, conv_svgs, conv_i, pngs, conv_exit, conv_stdout>>

\* lines 43-47: the PNG is up to date
ConvSkip ==
    /\ conv_pc = "loop"
    /\ conv_i < Len(conv_svgs)
    /\ up_to_date(conv_svgs[conv_i + 1])
    /\ skipped' = skipped + 1
    /\ conv_i' = conv_i + 1
    /\ UNCHANGED <<plots_exists, conv_svgs, converted, pngs, conv_pc, conv_exit,
                   conv_stdout>>

\* lines 49-52: rsvg-convert exits with 0
ConvRun ==
    /\ conv_pc = "loop"
    /\ conv_i < Len(conv_svgs)
    /\ ~up_to_date(conv_svgs[conv_i + 1])
    /\ conv_svgs[conv_i + 1].rsvg_exit = 0
    /\ pngs' = pngs \cup {conv_i + 1}
    /\ converted' = converted + 1
    /\ conv_i' = conv_i + 1
    /\ UNCHANGED <<plots_exists, conv_svgs, skipped, conv_pc, conv_exit, conv_stdout>>

\* line 51: rsvg-convert exits with another status; with check=True
\* subprocess.run raises CalledProcessError, which nothing catches
ConvFail ==
    /\ conv_pc = "loop"
    /\ conv_i < Len(conv_svgs)
    /\ ~up_to_date(conv_svgs[conv_i + 1])
    /\ conv_svgs[conv_i + 1].rsvg_exit # 0
    /\ conv_pc' = "crash"
    /\ conv_exit' = 1
    /\ UNCHANGED <<plots_exists, conv_svgs, conv_i, converted, skipped, pngs, conv_stdout>>

\* lines 54-55
ConvDone ==
    /\ conv_pc = "loop"
    /\ conv_i = Len(conv_svgs)
    /\ conv_stdout' = "Converted: Skipped: Total SVGs:"
    /\ conv_pc' = "done"
    /\ conv_exit' = 0
    /\ UNCHANGED <<plots_exists, conv_svgs, conv_i, converted, skipped, pngs>>

-----------------------------------------------------------------------------
(* generate_partition_kernel_pullback_svg.main: the bars *)

\* line 82: the figure height of the source
source_height == Rat(680, 1)

\* lines 30-31: max(low, min(high, value))
clamp(value, low, high) == RMax(low, RMin(high, value))

\* line 299: y_top = by(clamp(p, 0.0, y_max_bar))
bar_y_top(p, h) == by(clamp(p, Zero, y_max_bar), h)
\* line 300: height_px = y_bar0 + bar_plot_h - y_top
bar_height_px(p, h) == RSub(RAdd(y_bar0, bar_plot_h(h)), bar_y_top(p, h))

\* gy, uy and by applied to the two data values
CallGy ==
    /\ scale_pc = "none"
    /\ scale_pc' = "gy"
    /\ scale_out' = <<gy(scale_y1), gy(scale_y2)>>
    /\ UNCHANGED <<scale_y1, scale_y2>>

CallUy ==
    /\ scale_pc = "none"
    /\ scale_pc' = "uy"
    /\ scale_out' = <<uy(scale_y1), uy(scale_y2)>>
    /\ UNCHANGED <<scale_y1, scale_y2>>

CallBy ==
    /\ scale_pc = "none"
    /\ scale_pc' = "by"
    /\ scale_out' = <<by(scale_y1, source_height), by(scale_y2, source_height)>>
    /\ UNCHANGED <<scale_y1, scale_y2>>

\* lines 299-300: the rectangle of a bar of probability scale_y1
DrawBar ==
    /\ scale_pc = "none"
    /\ scale_pc' = "bar"
    /\ scale_out' = <<bar_y_top(scale_y1, source_height),
                      bar_height_px(scale_y1, source_height)>>
    /\ UNCHANGED <<scale_y1, scale_y2>>

-----------------------------------------------------------------------------
(* crop_bottom_whitespace_pngs.py *)

\* an image: its width and, row by row from the top, the largest value a pixel
\* of the row has in the gray difference to white (line 62)
Image(w, rows) == [width |-> w, rows |-> rows]
img_height(img) == Len(img.rows)

\* lines 63-64: mask = gray.point(lambda p: 255 if p > threshold else 0)
in_mask(p) == p > 12

\* line 65: mask.getbbox(), None or the (top, bottom) of the box, bottom exclusive
content_rows(img) == {i \in 1..img_height(img) : in_mask(img.rows[i])}
first_row(rows) == CHOOSE i \in rows : \A j \in rows : i <= j
last_row(rows) == CHOOSE i \in rows : \A j \in rows : j <= i
bbox_of(rows) == IF rows = {} THEN None ELSE Some(<<first_row(rows) - 1, last_row(rows)>>)
getbbox(img) == bbox_of(content_rows(img))

\* int(img.height * 0.80)
int_of_080(h) == (4 * h) \div 5

IntMin(a, b) == IF a < b THEN a ELSE b

\* lines 76-88, given bottom
checked_bottom(bottom, h) ==
    IF bottom >= h THEN None
    ELSE IF bottom < int_of_080(h) THEN None
    ELSE IF h - bottom < 10 THEN None
    ELSE Some(bottom)

\* lines 76-88 without the safety check of lines 81-82
bottom_without_floor(bbox, h, m) ==
    IF bbox = None THEN None
    ELSE IF bbox[1][2] >= h - 1 THEN None
    ELSE IF IntMin(h, bbox[1][2] + m) >= h THEN None
    ELSE IF h - IntMin(h, bbox[1][2] + m) < 10 THEN None
    ELSE Some(IntMin(h, bbox[1][2] + m))

\* lines 66-88, given bbox
bottom_of(bbox, h, m) ==
    IF bbox = None THEN None
    ELSE IF bbox[1][2] >= h - 1 THEN None
    ELSE checked_bottom(IntMin(h, bbox[1][2] + m), h)

\* compute_new_bottom(img, margin)
compute_new_bottom(img, m) == bottom_of(getbbox(img), img_height(img), m)

\* line 100: img.crop((0, 0, img.width, new_bottom))
crop(img, new_bottom) == Image(img.width, SubSeq(img.rows, 1, new_bottom))

\* lines 95-103, given new_bottom: the file, new_size and the saves after the call
crop_effect(img, new_bottom, dry) ==
    IF new_bottom = None THEN [file |-> img, new_size |-> None, saved |-> 0]
    ELSE IF dry THEN [file |-> img, new_size |-> Some(<<img.width, new_bottom[1]>>),
                      saved |-> 0]
    ELSE [file |-> crop(img, new_bottom[1]),
          new_size |-> Some(<<img.width, new_bottom[1]>>), saved |-> 1]

\* crop_one(path, margin, dry_run) on the image of the file
crop_one(img, m, dry) == crop_effect(img, compute_new_bottom(img, m), dry)

CropOne ==
    /\ crop_pc \in {0, 1}
    /\ crop_pc' = crop_pc + 1
    /\ crop_file' = crop_one(crop_file, margin, dry_run).file
    /\ crop_ret' = crop_one(crop_file, margin, dry_run).new_size
    /\ crop_saves' = crop_saves + crop_one(crop_file, margin, dry_run).saved
    /\ UNCHANGED <<crop_img, margin, dry_run>>

-----------------------------------------------------------------------------
(* Inputs *)

\* <text x='px' y='478'>v</text>, a labelled tick of the X axis
XT(px, v) == Text(px, <<"4", "7", "8">>, v)
\* <text x='62' y='py'>v</text>, a labelled tick of the Y axis
YT(py, v) == Text(<<"6", "2">>, py, v)

XT100 == XT(<<"1", "0", "0">>, <<"-", "1", ".", "0">>)
XT300 == XT(<<"3", "0", "0">>, <<"0", ".", "0">>)
XT500 == XT(<<"5", "0", "0">>, <<"1", ".", "0">>)
\* a label between the extremes, off the line through them
XT300off == XT(<<"3", "0", "0">>, <<"0", ".", "5">>)
\* a second label at pixel 100, written 100.0
XT100b == XT(<<"1", "0", "0", ".", "0">>, <<"1", ".", "0">>)
\* a label whose pixel matches [0-9.]+ and is no float
XTbad == XT(<<"1", ".", "2", ".", "3">>, <<"0">>)
YT50 == YT(<<"5", "0">>, <<"2", ".", "0">>)
YT450 == YT(<<"4", "5", "0">>, <<"0", ".", "0">>)
\* the tick-mark lines of X pixel 100 and Y pixel 50
XL100 == Line(<<"1", "0", "0">>, <<"4", "6", "0">>, <<"1", "0", "0">>, <<"4", "6", "5">>)
YL50 == Line(<<"6", "5">>, <<"5", "0">>, <<"7", "0">>, <<"5", "0">>)

\* "300,240 290,255 310,255": vertices averaging to pixel (300, 250)
StarPts300x250 ==
    <<"3", "0", "0", ",", "2", "4", "0", " ", "2", "9", "0", ",", "2", "5", "5", " ",
      "3", "1", "0", ",", "2", "5", "5">>
Star300x250 == Polygon(StarPts300x250, "#ffd92f")
\* "100,50"
Star100x50 == Polygon(<<"1", "0", "0", ",", "5", "0">>, "#ffd92f")
\* a polygon of another colour
Blue == Polygon(<<"0", ",", "0", " ", "9", ",", "9">>, "#1f77b4")
\* a star polygon with no usable vertex
StarNoVertex == Polygon(<<"x">>, "#ffd92f")

\* the contents of the files of the series directory
GoodSvg == <<XT100, XT500, YT50, YT450, Blue, Star300x250>>
GoodSvg2 == <<YT450, YT50, XT500, XT300, XT100, Star100x50>>
NoTicksSvg == <<Blue, Star300x250>>
DegenerateSvg == <<XT100, XT100b, YT50, YT450, Star300x250>>
NoStarSvg == <<XT100, XT500, YT50, YT450, Blue>>
EmptyStarSvg == <<XT100, XT500, YT50, YT450, StarNoVertex>>
FileTexts == {GoodSvg, GoodSvg2, NoTicksSvg, DegenerateSvg, NoStarSvg, EmptyStarSvg}

Name(prefix, suffix) == [prefix |-> prefix, suffix |-> suffix]
FileNames ==
    {Name("expected_info_gain", <<"0", "0", "1">>),
     Name("expected_info_gain", <<"0", "0", "2">>),
     Name("expected_info_gain", <<"0", "1">>),
     Name("decision_map", <<"0", "0", "1">>),
     Name("decision_map", <<"0", "0", "2">>),
     Name("uncertainty_map", <<"0", "0", "1">>),
     Name("uncertainty_map", <<"0", "0", "0", "2">>)}

\* the directories of at most MaxFiles files
Directories ==
    UNION {[names -> FileTexts] : names \in {n \in SUBSET FileNames : Cardinality(n) <= MaxFiles}}

FilesOf(dir) == {[name |-> n, text |-> dir[n]] : n \in DOMAIN dir}

\* the points of _fit_affine's inputs
Halves(lo, hi) == {Rat(n, 2) : n \in (2 * lo)..(2 * hi)}
FitPoints == {<<px, v>> : px \in Halves(0, MaxPx), v \in Halves(-MaxVal, MaxVal)}

\* boundaries: the halves in -1 .. 1; strictly increasing lists of them
EdgeValues == Halves(-1, 1)

RECURSIVE IncreasingLists(_)
IncreasingLists(n) ==
    IF n = 0 THEN {<<>>}
    ELSE UNION {{q} \cup {Append(q, e) : e \in {v \in EdgeValues :
                                  Len(q) = n - 1 /\ (q = <<>> \/ RLess(q[Len(q)], v))}} :
                q \in IncreasingLists(n - 1)}

EdgeLists == {q \in IncreasingLists(MaxEdges) : Len(q) >= 1}

CdfValues == {Rat(k, CdfSteps) : k \in 0..CdfSteps}

\* data values of the scales: below 0, 0, inside each panel, the panel maxima
\* 9/50 = 0.18, 21/50 = 0.42, 60/50 = 1.2, and above
DataValues == {Rat(3 * k, 50) : k \in -1..MaxData}

\* one row of near-white noise (12) or of content (13, 255) under blank rows
\* and over rows of a given filling: images of every height up to MaxHeight
\* with no content or with their content ending at any row
RowsOf(h, b, ink, below) ==
    [i \in 1..h |-> IF i = b THEN ink ELSE IF i > b THEN below ELSE IF i = 1 THEN 255 ELSE 0]
Images ==
    {Image(4, RowsOf(h, b, 255, below)) : h \in 1..MaxHeight, b \in 0..MaxHeight, below \in {0, 12}}
        \cup {Image(4, RowsOf(MaxHeight, b, ink, 0)) : b \in 1..MaxHeight, ink \in {12, 13}}

\* --margin
Margins == {0, 1, 2, 9, 20}

\* an SVG of plots/: its modification time, its PNG (missing, or with a
\* modification time) and the exit status rsvg-convert has on it
SvgFiles ==
    {[svg_mtime |-> 1, png |-> p[1], png_mtime |-> p[2], rsvg_exit |-> e] :
         p \in {<<"none", 0>>, <<"file", 0>>, <<"file", 1>>, <<"file", 2>>}, e \in {0, 1}}

\* the sorted lists of at most n SVGs
RECURSIVE SvgLists(_)
SvgLists(n) ==
    IF n = 0 THEN {<<>>}
    ELSE SvgLists(n - 1)
         \cup UNION {{Append(q, f) : f \in SvgFiles} : q \in {r \in SvgLists(n - 1) : Len(r) = n - 1}}

\* figure sizes (width, height): the one of line 82, heights giving
\* bar_plot_h = 160 and 159, widths giving plot_w = 0 and plot_w < 0
Layouts == {<<980, 680>>, <<980, 666>>, <<980, 665>>, <<182, 680>>, <<100, 680>>}

\* peaks of the functions taken for stdnorm_pdf
PdfPeaks == {Rat(2, 5), Rat(1, 10)}

\* sequences of at most n distinct elements of the set S
Extensions(qs, S, n) ==
    UNION {{Append(q, e) : e \in {x \in S : \A i \in 1..Len(q) : q[i] # x}} :
           q \in {r \in qs : Len(r) = n - 1}}

RECURSIVE Arrangements(_, _)
Arrangements(S, n) ==
    IF n = 0 THEN {<<>>}
    ELSE Arrangements(S, n - 1) \cup Extensions(Arrangements(S, n - 1), S, n)

\* markups of ticks, tick lines and polygons in every order
TickPool == {XT100, XT300, XT500, XT100b, XTbad, YT50, YT450, XL100}
FourTicks == {q \in Arrangements({XT100, XT500, YT50, YT450}, 4) : Len(q) = 4}
FiveTicks == {q \in Arrangements({XT100, XT300off, XT500, YT50, YT450}, 5) : Len(q) = 5}
TickTexts ==
    Arrangements(TickPool, MaxElems)
        \cup FiveTicks
        \cup {SubSeq(q, 1, k) \o <<Star300x250>> \o SubSeq(q, k + 1, 4) :
                  q \in FourTicks, k \in 0..4}

\* the tokens of a points attribute
Tokens ==
    {<<"0", ",", "0">>, <<"2", ",", "0">>, <<"1", ",", "2">>,
     <<"7">>, <<"x", ",", "1">>, <<"1", ",", "2", ",", "3">>,
     <<"-", "1", ",", ".", "5">>, <<"1", ".", ",", ".">>}

RECURSIVE Join(_)
Join(tokens) ==
    IF tokens = <<>> THEN <<>>
    ELSE IF Len(tokens) = 1 THEN tokens[1]
    ELSE tokens[1] \o <<" ">> \o Join(Tail(tokens))

RECURSIVE TokenLists(_)
TokenLists(n) ==
    IF n = 0 THEN {<<>>}
    ELSE LET shorter == TokenLists(n - 1)
         IN  shorter \cup {Append(q, t) : q \in {r \in shorter : Len(r) = n - 1},
                                          t \in Tokens}

\* points attributes: tokens joined by one space, and some with other white space
OddSpacing ==
    {<<" ", " ">>,
     <<"\n", "0", ",", "0", " ", " ", "2", ",", "0", "\t", "1", ",", "2", " ">>}

PointStrings == {Join(q) : q \in TokenLists(MaxTokens)} \cup OddSpacing

ShortPointStrings == {Join(q) : q \in TokenLists(MaxTokens - 1)} \cup OddSpacing

\* markups of one or two polygons
StarTexts ==
    {<<Polygon(pts, fill)>> : pts \in PointStrings, fill \in {"#ffd92f", "#FFD92F", "#1f77b4"}}
    \cup {<<Polygon(pts, fill), Polygon(<<"5", ",", "5">>, "#ffd92f")>> :
              pts \in ShortPointStrings, fill \in {"#ffd92f", "#1f77b4"}}

-----------------------------------------------------------------------------
(* Specifications *)

MainIdle ==
    /\ plots_dir_exists = FALSE
    /\ dir_files = {}
    /\ svgs = <<>>
    /\ pc = "idle"
    /\ idx = 0
    /\ mapping = EmptyDict
    /\ out_dir_made = FALSE
    /\ out_file = <<>>
    /\ exit_status = -1
    /\ stderr = ""

FitIdle == p1 = <<Zero, Zero>> /\ p2 = <<Zero, Zero>> /\ fit_ret = NotCalled

ExtractIdle == svg_text = <<>> /\ call = "idle" /\ ret = NotCalled

BinIdle == inner_edges = <<>> /\ cdf = <<>> /\ bins = <<>> /\ probs = <<>> /\ bpc = "idle"

ScaleIdle == scale_y1 = Zero /\ scale_y2 = Zero /\ scale_pc = "idle" /\ scale_out = <<>>

CropIdle ==
    /\ crop_img = <<>> /\ crop_file = <<>> /\ margin = 0 /\ dry_run = FALSE
    /\ crop_pc = -1 /\ crop_ret = <<>> /\ crop_saves = 0

ConvIdle ==
    /\ plots_exists = FALSE /\ conv_svgs = <<>> /\ conv_i = 0
    /\ converted = 0 /\ skipped = 0 /\ pngs = {}
    /\ conv_pc = "idle" /\ conv_exit = -1 /\ conv_stdout = ""

FigIdle ==
    /\ width = Zero /\ height = Zero /\ pdf_peak = Zero
    /\ fpc = "idle" /\ fig_err = ""
    /\ gauss_points = <<>> /\ highlight_points = <<>>
    /\ svg = <<>> /\ fig_written = FALSE

\* the star-metadata run: main()
Init ==
    /\ plots_dir_exists \in BOOLEAN
    /\ \E dir \in Directories :
          dir_files = IF plots_dir_exists THEN FilesOf(dir) ELSE {}
    /\ svgs = <<>>
    /\ pc = "start"
    /\ idx = 0
    /\ mapping = EmptyDict
    /\ out_dir_made = FALSE
    /\ out_file = <<>>
    /\ exit_status = -1
    /\ stderr = ""
    /\ FitIdle /\ ExtractIdle /\ BinIdle /\ FigIdle /\ ConvIdle /\ ScaleIdle /\ CropIdle

Next ==
    \/ MissingDir /\ UNCHANGED <<fitVars, extractVars, binVars, figVars, convVars, scaleVars, cropVars>>
    \/ Setup /\ UNCHANGED <<fitVars, extractVars, binVars, figVars, convVars, scaleVars, cropVars>>
    \/ LoopSkipName /\ UNCHANGED <<fitVars, extractVars, binVars, figVars, convVars, scaleVars, cropVars>>
    \/ LoopRecord /\ UNCHANGED <<fitVars, extractVars, binVars, figVars, convVars, scaleVars, cropVars>>
    \/ LoopRaise /\ UNCHANGED <<fitVars, extractVars, binVars, figVars, convVars, scaleVars, cropVars>>
    \/ WriteOut /\ UNCHANGED <<fitVars, extractVars, binVars, figVars, convVars, scaleVars, cropVars>>

Spec == Init /\ [][Next]_vars

\* _fit_affine called on two points
InitFit ==
    /\ p1 \in FitPoints
    /\ p2 \in FitPoints
    /\ fit_ret = NotCalled
    /\ MainIdle /\ ExtractIdle /\ BinIdle /\ FigIdle /\ ConvIdle /\ ScaleIdle /\ CropIdle

CallFitAffine ==
    /\ fit_ret = NotCalled
    /\ fit_ret' = _fit_affine(p1, p2)
    /\ UNCHANGED <<p1, p2, mainVars, extractVars, binVars, figVars, convVars, scaleVars, cropVars>>

NextFit == CallFitAffine

SpecFit == InitFit /\ [][NextFit]_vars

\* _extract_ticks, _extract_star_xy and the loop body called on a markup
InitExtract ==
    /\ svg_text \in TickTexts \cup StarTexts
    /\ call = "none"
    /\ ret = NotCalled
    /\ MainIdle /\ FitIdle /\ BinIdle /\ FigIdle /\ ConvIdle /\ ScaleIdle /\ CropIdle

CallExtractTicks ==
    /\ call = "none"
    /\ call' = "_extract_ticks"
    /\ ret' = _extract_ticks(svg_text)
    /\ UNCHANGED <<svg_text, mainVars, fitVars, binVars, figVars, convVars, scaleVars, cropVars>>

CallExtractStarXY ==
    /\ call = "none"
    /\ call' = "_extract_star_xy"
    /\ ret' = _extract_star_xy(svg_text)
    /\ UNCHANGED <<svg_text, mainVars, fitVars, binVars, figVars, convVars, scaleVars, cropVars>>

CallLoopBody ==
    /\ call = "none"
    /\ call' = "loop_body"
    /\ ret' = loop_body(svg_text)
    /\ UNCHANGED <<svg_text, mainVars, fitVars, binVars, figVars, convVars, scaleVars, cropVars>>

NextExtract == CallExtractTicks \/ CallExtractStarXY \/ CallLoopBody

SpecExtract == InitExtract /\ [][NextExtract]_vars

\* the bins and probabilities of the partition figure
InitBins ==
    /\ inner_edges \in EdgeLists
    /\ cdf \in [{inner_edges[i] : i \in 1..Len(inner_edges)} -> CdfValues]
    /\ bins = <<>>
    /\ probs = <<>>
    /\ bpc = "bins"
    /\ MainIdle /\ FitIdle /\ ExtractIdle /\ FigIdle /\ ConvIdle /\ ScaleIdle /\ CropIdle

NextBins ==
    \/ BuildBins /\ UNCHANGED <<mainVars, fitVars, extractVars, figVars, convVars, scaleVars, cropVars>>
    \/ ProbStep /\ UNCHANGED <<mainVars, fitVars, extractVars, figVars, convVars, scaleVars, cropVars>>
    \/ ProbsDone /\ UNCHANGED <<mainVars, fitVars, extractVars, figVars, convVars, scaleVars, cropVars>>

SpecBins == InitBins /\ [][NextBins]_vars

\* the layout and the curves of the partition figure
InitFigure ==
    /\ \E l \in Layouts : width = Rat(l[1], 1) /\ height = Rat(l[2], 1)
    /\ pdf_peak \in PdfPeaks
    /\ fpc = "layout"
    /\ fig_err = ""
    /\ gauss_points = <<>>
    /\ highlight_points = <<>>
    /\ svg = <<>>
    /\ fig_written = FALSE
    /\ MainIdle /\ FitIdle /\ ExtractIdle /\ BinIdle /\ ConvIdle /\ ScaleIdle /\ CropIdle

NextFigure ==
    \/ Layout /\ UNCHANGED <<mainVars, fitVars, extractVars, binVars, convVars, scaleVars, cropVars>>
    \/ GaussStep /\ UNCHANGED <<mainVars, fitVars, extractVars, binVars, convVars, scaleVars, cropVars>>
    \/ HighlightOpen /\ UNCHANGED <<mainVars, fitVars, extractVars, binVars, convVars, scaleVars, cropVars>>
    \/ HighlightStep /\ UNCHANGED <<mainVars, fitVars, extractVars, binVars, convVars, scaleVars, cropVars>>
    \/ HighlightClose /\ UNCHANGED <<mainVars, fitVars, extractVars, binVars, convVars, scaleVars, cropVars>>
    \/ WriteFigure /\ UNCHANGED <<mainVars, fitVars, extractVars, binVars, convVars, scaleVars, cropVars>>

SpecFigure == InitFigure /\ [][NextFigure]_vars

\* the SVG to PNG conversion run
InitConvert ==
    /\ plots_exists \in BOOLEAN
    /\ conv_svgs \in IF plots_exists THEN SvgLists(MaxSvgs) ELSE {<<>>}
    /\ conv_i = 0
    /\ converted = 0
    /\ skipped = 0
    /\ pngs = {i \in 1..Len(conv_svgs) : up_to_date(conv_svgs[i])}
    /\ conv_pc = "start"
    /\ conv_exit = -1
    /\ conv_stdout = ""
    /\ MainIdle /\ FitIdle /\ ExtractIdle /\ BinIdle /\ FigIdle /\ ScaleIdle /\ CropIdle

NextConvert ==
    \/ ConvMissingDir /\ UNCHANGED <<mainVars, fitVars, extractVars, binVars, figVars, scaleVars, cropVars>>
    \/ ConvNoSvgs /\ UNCHANGED <<mainVars, fitVars, extractVars, binVars, figVars, scaleVars, cropVars>>
    \/ ConvStart /\ UNCHANGED <<mainVars, fitVars, extractVars, binVars, figVars, scaleVars, cropVars>>
    \/ ConvSkip /\ UNCHANGED <<mainVars, fitVars, extractVars, binVars, figVars, scaleVars, cropVars>>
    \/ ConvRun /\ UNCHANGED <<mainVars, fitVars, extractVars, binVars, figVars, scaleVars, cropVars>>
    \/ ConvFail /\ UNCHANGED <<mainVars, fitVars, extractVars, binVars, figVars, scaleVars, cropVars>>
    \/ ConvDone /\ UNCHANGED <<mainVars, fitVars, extractVars, binVars, figVars, scaleVars, cropVars>>

SpecConvert == InitConvert /\ [][NextConvert]_vars

\* the vertical scales and a bar, each applied to data values
InitScales ==
    /\ scale_y1 \in DataValues
    /\ scale_y2 \in DataValues
    /\ scale_pc = "none"
    /\ scale_out = <<>>
    /\ MainIdle /\ FitIdle /\ ExtractIdle /\ BinIdle /\ FigIdle /\ ConvIdle /\ CropIdle

NextScales ==
    \/ CallGy /\ UNCHANGED <<mainVars, fitVars, extractVars, binVars, figVars, convVars, cropVars>>
    \/ CallUy /\ UNCHANGED <<mainVars, fitVars, extractVars, binVars, figVars, convVars, cropVars>>
    \/ CallBy /\ UNCHANGED <<mainVars, fitVars, extractVars, binVars, figVars, convVars, cropVars>>
    \/ DrawBar /\ UNCHANGED <<mainVars, fitVars, extractVars, binVars, figVars, convVars, cropVars>>

SpecScales == InitScales /\ [][NextScales]_vars

\* crop_one called twice on a file
InitCrop ==
    /\ crop_img \in Images
    /\ crop_file = crop_img
    /\ margin \in Margins
    /\ dry_run \in BOOLEAN
    /\ crop_pc = 0
    /\ crop_ret = None
    /\ crop_saves = 0
    /\ MainIdle /\ FitIdle /\ ExtractIdle /\ BinIdle /\ FigIdle /\ ConvIdle /\ ScaleIdle

NextCrop ==
    CropOne /\ UNCHANGED <<mainVars, fitVars, extractVars, binVars, figVars, convVars, scaleVars>>

SpecCrop == InitCrop /\ [][NextCrop]_vars

-----------------------------------------------------------------------------
(* Properties *)

\* the artifact's name carries a frame index and its extraction succeeds
Recovers(f) == step_re(f.name) /\ Returned(loop_body(f.text))

\* the keys of the written JSON document
WrittenKeys == {out_file[1][n][1] : n \in 1..Len(out_file[1])}

\* C1: whatever artifact fails, the run ends with exit status 0 and has written
\* the mapping that holds exactly the entries of the artifacts that did not fail.
C1_BatchResilience ==
    pc \in {"done", "crash"} =>
        /\ exit_status = 0
        /\ out_file # <<>>
        /\ WrittenKeys = {key_of(svgs[i].name) : i \in {j \in 1..Len(svgs) : Recovers(svgs[j])}}

\* the elements of a markup
Elements(text) == {text[i] : i \in 1..Len(text)}

EndToEndScenario == Elements(svg_text) = {XT100, XT500, YT50, YT450, Star300x250}

\* C2: X ticks 100 -> -1.0 and 500 -> 1.0, Y ticks 50 -> 2.0 and 450 -> 0.0 and a
\* star averaging to pixel (300, 250) give the record x1 = 0.0, x2 = 1.0, in
\* whatever order the elements appear in the markup.
C2_EndToEnd ==
    (call = "loop_body" /\ EndToEndScenario) => ret = Return([x1 |-> Zero, x2 |-> One])

C2_Witness ==
    /\ call = "loop_body"
    /\ EndToEndScenario
    /\ svg_text[1] = YT450
    /\ svg_text[2] = XT500
    /\ ret = Return([x1 |-> Zero, x2 |-> One])

\* C3: for reference points with distinct pixels the fitted map sends each
\* pixel to its value.
C3_FitRoundTrip ==
    (fit_ret # NotCalled /\ p1[1] # p2[1]) =>
        /\ Returned(fit_ret)
        /\ Affine1D_call(fit_ret.val[1], p1[1]) = p1[2]
        /\ Affine1D_call(fit_ret.val[1], p2[1]) = p2[2]

C3_Witness ==
    /\ Returned(fit_ret)
    /\ RLess(p2[1], p1[1])
    /\ p1[2] # p2[2]
    /\ p1[1].d = 2
    /\ Affine1D_call(fit_ret.val[1], p2[1]) = p2[2]

\* C4: for reference points with equal pixels _fit_affine raises its ValueError
\* and returns no map: it neither divides by zero nor yields a map.
C4_DegenerateRejected ==
    (fit_ret # NotCalled /\ p1[1] = p2[1]) =>
        fit_ret = Raise("ValueError: Degenerate affine fit")

C4_Witness ==
    /\ p1[1] = p2[1]
    /\ p1[2] # p2[2]
    /\ fit_ret = Raise("ValueError: Degenerate affine fit")

\* the number of tick labels of each axis in a markup
XLabels(text) == Cardinality({i \in 1..Len(text) : X_TICK_TEXT_RE(text[i])})
YLabels(text) == Cardinality({i \in 1..Len(text) : Y_TICK_TEXT_RE(text[i])})

\* C5: with fewer than 2 tick labels on the X axis or on the Y axis
\* _extract_ticks raises a ValueError and returns nothing; it returns a pair of
\* maps only when both axes have at least 2.
C5_InsufficientTicks ==
    call = "_extract_ticks" =>
        /\ (XLabels(svg_text) < 2 \/ YLabels(svg_text) < 2) =>
               /\ ret.raised \in {"ValueError: Could not find enough axis ticks",
                                  "ValueError: could not convert string to float"}
               /\ ret.val = <<>>
        /\ Returned(ret) =>
               /\ XLabels(svg_text) >= 2 /\ YLabels(svg_text) >= 2
               /\ Len(ret.val[1]) = 2

C5_Witness ==
    /\ call = "_extract_ticks"
    /\ XLabels(svg_text) >= 2
    /\ YLabels(svg_text) = 1
    /\ ret = Raise("ValueError: Could not find enough axis ticks")

\* the record written under a key
Written(k) == (CHOOSE n \in 1..Len(out_file[1]) : out_file[1][n][1] = k)

\* C6: when two processed artifacts have the same frame index, the record of
\* the earlier one is still the one in the written mapping.
C6_NoSilentOverwrite ==
    pc = "done" =>
        \A i, j \in 1..Len(svgs) :
            (/\ i < j
             /\ Recovers(svgs[i])
             /\ Recovers(svgs[j])
             /\ key_of(svgs[i].name) = key_of(svgs[j].name))
            => out_file[1][Written(key_of(svgs[i].name))][2] = loop_body(svgs[i].text).val[1]

\* C7: without the series directory the run stops at once with a non-zero exit
\* status and a message; no output directory is made, no artifact is processed
\* and nothing is written.
C7_MissingCorpusAborts ==
    (~plots_dir_exists /\ pc # "start") =>
        /\ pc = "exit"
        /\ exit_status # 0 /\ exit_status # -1
        /\ stderr = "Missing plot series dir"
        /\ ~out_dir_made
        /\ svgs = <<>> /\ idx = 0 /\ mapping = EmptyDict
        /\ out_file = <<>>

C7_Witness == ~plots_dir_exists /\ pc = "exit" /\ exit_status = 1

\* the polygons with the star fill, and the points of the first of them
StarFilled(text) ==
    {i \in 1..Len(text) : text[i].tag = "polygon" /\ lower(text[i].fill) = "#ffd92f"}
FirstStarPoints(text) ==
    text[CHOOSE i \in StarFilled(text) : \A j \in StarFilled(text) : i <= j].points

\* the tokens of a points string: its maximal runs without white space
TokenSpans(s) ==
    {sp \in (1..Len(s)) \X (1..Len(s)) :
        /\ sp[1] <= sp[2]
        /\ \A k \in sp[1]..sp[2] : ~IsSpace(s[k])
        /\ sp[1] = 1 \/ IsSpace(s[sp[1] - 1])
        /\ sp[2] = Len(s) \/ IsSpace(s[sp[2] + 1])}

\* the parts of a token before and after its first comma
BeforeComma(t) == SubSeq(t, 1, CommaIndex(t) - 1)
AfterComma(t) == SubSeq(t, CommaIndex(t) + 1, Len(t))

\* a well-formed token: "x,y" with x and y numbers
WellFormed(t) ==
    /\ \E k \in 1..Len(t) : t[k] = ","
    /\ Returned(float(BeforeComma(t)))
    /\ Returned(float(AfterComma(t)))

WellFormedSpans(s) == {sp \in TokenSpans(s) : WellFormed(SubSeq(s, sp[1], sp[2]))}

RECURSIVE SumSpans(_, _, _)
SumSpans(s, spans, c) ==
    IF spans = {} THEN Zero
    ELSE LET sp == CHOOSE x \in spans : TRUE
             t == SubSeq(s, sp[1], sp[2])
             v == IF c = 1 THEN float(BeforeComma(t)).val[1] ELSE float(AfterComma(t)).val[1]
         IN  RAdd(v, SumSpans(s, spans \ {sp}, c))

MeanOfWellFormed(s, c) ==
    RDiv(SumSpans(s, WellFormedSpans(s), c), Rat(Cardinality(WellFormedSpans(s)), 1))

\* C8: _extract_star_xy returns the mean x and the mean y of exactly the
\* well-formed tokens of the first polygon with the star fill; the other tokens
\* are skipped and do not count.
C8_CentroidIsMean ==
    (/\ call = "_extract_star_xy"
     /\ StarFilled(svg_text) # {}
     /\ WellFormedSpans(FirstStarPoints(svg_text)) # {})
    => ret = Return(<<MeanOfWellFormed(FirstStarPoints(svg_text), 1),
                      MeanOfWellFormed(FirstStarPoints(svg_text), 2)>>)

C8_Witness ==
    /\ call = "_extract_star_xy"
    /\ StarFilled(svg_text) # {}
    /\ Cardinality(WellFormedSpans(FirstStarPoints(svg_text))) = 2
    /\ Cardinality(TokenSpans(FirstStarPoints(svg_text))) = 3
    /\ ret = Return(<<One, Zero>>)

\* C9: _extract_star_xy raises when no polygon has the star fill, and when the
\* first polygon with the star fill has no usable vertex, without going on to a
\* later polygon.
C9_MarkerErrors ==
    call = "_extract_star_xy" =>
        /\ StarFilled(svg_text) = {} => ~Returned(ret) /\ ret.val = <<>>
        /\ (/\ StarFilled(svg_text) # {}
            /\ WellFormedSpans(FirstStarPoints(svg_text)) = {})
           => ~Returned(ret) /\ ret.val = <<>>

RECURSIVE SumSeq(_)
SumSeq(q) == IF q = <<>> THEN Zero ELSE RAdd(Head(q), SumSeq(Tail(q)))

\* C10: n >= 1 strictly increasing boundaries give n + 1 bins, n - 1 inner ones
\* between two open-ended tails; consecutive bins share their boundary; there
\* is one probability per bin and the probabilities sum to 1.
C10_PartitionComplete ==
    bpc = "bars" =>
        /\ Len(bins) = Len(inner_edges) + 1
        /\ bins[1][1] = None
        /\ bins[Len(bins)][2] = None
        /\ Cardinality({i \in 1..Len(bins) : bins[i][1] # None /\ bins[i][2] # None})
               = Len(inner_edges) - 1
        /\ \A i \in 1..(Len(bins) - 1) : bins[i][2] # None /\ bins[i][2] = bins[i + 1][1]
        /\ \A i \in 1..Len(bins) :
               (bins[i][1] # None /\ bins[i][2] # None) => RLess(bins[i][1][1], bins[i][2][1])
        /\ Len(probs) = Len(bins)
        /\ SumSeq(probs) = One

C10_Witness ==
    /\ bpc = "bars"
    /\ Len(inner_edges) = 3
    /\ Len(probs) = 4
    /\ probs[2] # Zero
    /\ SumSeq(probs) = One

\* C11: in the probability list the first bin has cdf(first boundary), the last
\* bin has 1 - cdf(last boundary), every inner bin has cdf(upper) - cdf(lower),
\* and the run never leaves the loop through "Invalid bin interval".
C11_TailBins ==
    /\ bpc # "crash"
    /\ bpc = "bars" =>
           /\ probs[1] = cdf[inner_edges[1]]
           /\ probs[Len(probs)] = RSub(One, cdf[inner_edges[Len(inner_edges)]])
           /\ \A i \in 2..(Len(probs) - 1) :
                  probs[i] = RSub(cdf[inner_edges[i]], cdf[inner_edges[i - 1]])

C11_Witness ==
    /\ bpc = "bars"
    /\ Len(inner_edges) = 3
    /\ probs[1] = Rat(1, 4)
    /\ probs[2] = Rat(1, 4)
    /\ probs[3] = Rat(1, 2)
    /\ probs[4] = Zero

\* C12: the first and last curve points of the highlight segment (i = 0 and
\* i = 80) have the data x and the pixel coordinates of the full curve's samples
\* at x = 1.2 and x = 1.6 (i = 168 and i = 184 of the 241), and the closed
\* highlight path starts and ends on the baseline gy(0) at those x positions.
C12_HighlightContinuity ==
    fpc \in {"svg", "done"} =>
        /\ Len(gauss_points) = 241
        /\ Len(highlight_points) = 83
        /\ highlight_x(0) = highlight_left /\ highlight_x(0) = gauss_x(168)
        /\ highlight_x(80) = highlight_right /\ highlight_x(80) = gauss_x(184)
        /\ highlight_points[2] = gauss_points[169]
        /\ highlight_points[82] = gauss_points[185]
        /\ highlight_points[1] = <<highlight_points[2][1], gy(Zero)>>
        /\ highlight_points[83] = <<highlight_points[82][1], gy(Zero)>>

C12_Witness ==
    /\ fpc = "done"
    /\ width = Rat(980, 1)
    /\ pdf_peak = Rat(2, 5)
    /\ svg[1].d = highlight_points
    /\ highlight_points[2] = gauss_points[169]
    /\ highlight_points[2][1] = Rat(3433, 10)
    /\ highlight_points[82][1] = Rat(3699, 10)
    /\ RLess(highlight_points[2][2], gy(Zero))

\* C13: when rsvg-convert exits non-zero on one SVG, only that conversion
\* fails: every SVG of the sorted list is still taken up, converted or skipped
\* as up to date, and the run ends with its report.
C13_ConversionIsolation ==
    (conv_pc \in {"done", "crash"} /\ plots_exists) =>
        /\ conv_pc = "done"
        /\ conv_i = Len(conv_svgs)
        /\ \A i \in 1..Len(conv_svgs) : conv_svgs[i].rsvg_exit = 0 => i \in pngs

\* the tick labels of an axis that have the axis's tick-mark line at their pixel
PairedXLabels(text) ==
    {i \in 1..Len(text) :
        /\ X_TICK_TEXT_RE(text[i])
        /\ \E j \in 1..Len(text) : X_TICK_LINE_RE(text[j]) /\ text[j].x1 = text[i].x}
PairedYLabels(text) ==
    {i \in 1..Len(text) :
        /\ Y_TICK_TEXT_RE(text[i])
        /\ \E j \in 1..Len(text) : Y_TICK_LINE_RE(text[j]) /\ text[j].y1 = text[i].y}

\* C14: _extract_ticks takes a tick only where the markup has both the
\* tick-mark line and the tick label of the axis at one pixel coordinate, so
\* it returns maps only when each axis has at least 2 such pairs; a label
\* without its line contributes nothing.
C14_TickPairing ==
    (call = "_extract_ticks" /\ Returned(ret)) =>
        /\ Cardinality(PairedXLabels(svg_text)) >= 2
        /\ Cardinality(PairedYLabels(svg_text)) >= 2

\* the ticks of the two axes, when every label parses
ParsedTicks ==
    /\ Returned(x_ticks_of(svg_text)) /\ Len(x_ticks_of(svg_text).val[1]) >= 2
    /\ Returned(y_ticks_of(svg_text)) /\ Len(y_ticks_of(svg_text).val[1]) >= 2

SharePixel(ticks) == \A i, j \in 1..Len(ticks) : ticks[i][1] = ticks[j][1]

\* the map passes through a tick of minimum pixel and a tick of maximum pixel
ThroughExtremes(m, ticks) ==
    \E i, j \in 1..Len(ticks) :
        /\ \A k \in 1..Len(ticks) :
               RLeq(ticks[i][1], ticks[k][1]) /\ RLeq(ticks[k][1], ticks[j][1])
        /\ Affine1D_call(m, ticks[i][1]) = ticks[i][2]
        /\ Affine1D_call(m, ticks[j][1]) = ticks[j][2]

\* C15: with at least 2 ticks on each axis, in any order of appearance, each map
\* returned by _extract_ticks is the line through the tick of minimum pixel and
\* the tick of maximum pixel, whatever the ticks between them; the call raises
\* the degenerate-fit error exactly when all ticks of an axis share one pixel.
C15_ExtremalFit ==
    (call = "_extract_ticks" /\ ParsedTicks) =>
        /\ ret.raised = "ValueError: Degenerate affine fit"
               <=> \/ SharePixel(x_ticks_of(svg_text).val[1])
                   \/ SharePixel(y_ticks_of(svg_text).val[1])
        /\ ret.raised \in {"", "ValueError: Degenerate affine fit"}
        /\ Returned(ret) =>
               /\ ThroughExtremes(ret.val[1][1], x_ticks_of(svg_text).val[1])
               /\ ThroughExtremes(ret.val[1][2], y_ticks_of(svg_text).val[1])

C15_Witness ==
    /\ call = "_extract_ticks"
    /\ svg_text = <<YT450, XT300off, XT500, YT50, XT100>>
    /\ ret = Return(<<Affine1D(Rat(1, 200), Rat(-3, 2)), Affine1D(Rat(-1, 200), Rat(9, 4))>>)

Inverted(top, top_px, bottom_px) ==
    /\ RLess(scale_y1, scale_y2) => RLess(scale_out[2], scale_out[1])
    /\ scale_y1 = Zero => scale_out[1] = Rat(bottom_px, 1)
    /\ scale_y1 = top => scale_out[1] = Rat(top_px, 1)

\* C17: gy, uy and by decrease strictly in their data argument; they send
\* data 0 to the bottom pixel edge of their panel (306, 306, 600) and the
\* panel's data maximum (0.42, 1.2, 0.18) to its top edge (42, 42, 426); a bar
\* of any probability, clamped to [0, 0.18], has its top inside the bar panel
\* and a pixel height that is not negative.
C17_VerticalInversion ==
    /\ scale_pc = "gy" => Inverted(Rat(21, 50), 42, 306)
    /\ scale_pc = "uy" => Inverted(Rat(6, 5), 42, 306)
    /\ scale_pc = "by" => Inverted(Rat(9, 50), 426, 600)
    /\ scale_pc = "bar" =>
           /\ RLeq(Rat(426, 1), scale_out[1]) /\ RLeq(scale_out[1], Rat(600, 1))
           /\ RLeq(Zero, scale_out[2])
           /\ RAdd(scale_out[1], scale_out[2]) = Rat(600, 1)

C17_Witness ==
    /\ scale_pc = "bar"
    /\ scale_y1 = Rat(3, 50)
    /\ scale_out = <<Rat(542, 1), Rat(58, 1)>>

\* the row the content of the image of the file ended at before the first call
ContentBottom == IF content_rows(crop_img) = {} THEN 0 ELSE last_row(content_rows(crop_img))

\* C18: compute_new_bottom returns None or the content bottom b plus the margin,
\* and a result r has int(0.80 * h) <= r <= h - 10; it returns None for an image
\* without content and for b >= h - 1.  crop_one keeps the width and the rows
\* from the top, writes nothing when the result is None or dry_run is set, and
\* a second call on the cropped file returns None and writes nothing.
C18_CropSafety ==
    /\ crop_pc = 1 =>
           /\ crop_ret = None \/ crop_ret = Some(<<crop_img.width, ContentBottom + margin>>)
           /\ crop_ret # None =>
                  /\ (4 * Len(crop_img.rows)) \div 5 <= crop_ret[1][2]
                  /\ crop_ret[1][2] <= Len(crop_img.rows) - 10
           /\ (ContentBottom = 0 \/ ContentBottom >= Len(crop_img.rows) - 1) =>
                  crop_ret = None
           /\ (crop_ret = None \/ dry_run) => (crop_file = crop_img /\ crop_saves = 0)
           /\ (crop_ret # None /\ ~dry_run) =>
                  /\ crop_saves = 1
                  /\ crop_file.width = crop_img.width
                  /\ crop_file.rows = SubSeq(crop_img.rows, 1, crop_ret[1][2])
    /\ (crop_pc = 2 /\ crop_saves >= 1) =>
           /\ crop_ret = None
           /\ crop_saves = 1
           /\ Len(crop_file.rows) = ContentBottom + margin

C18_Witness ==
    /\ crop_pc = 2
    /\ Len(crop_img.rows) = 60
    /\ ContentBottom = 30
    /\ margin = 20
    /\ crop_saves = 1
    /\ Len(crop_file.rows) = 50
    /\ crop_ret = None

====
